---- MODULE Spec2Model ----
(***************************************************************************)
(* A model of HashMap<KeyT, ValueT> (HashMap.hpp) and of Dictionary        *)
(* (Dictionary.hpp): a chained hash table whose bucket array is a heap     *)
(* block owned by the table, doubled when the load factor exceeds 0.75     *)
(* and halved when it drops below 0.25.                                    *)
(*                                                                         *)
(* The heap is modelled explicitly (mem maps the address of every live     *)
(* bucket array to its contents), so that new[], delete[] and the pointer  *)
(* member `buckets` are what the code makes of them.  Bucket arrays are    *)
(* functions over 0..capacity-1; a bucket is a sequence of pairs           *)
(* [first, second], in push_back order.                                    *)
(***************************************************************************)
EXTENDS Integers, Sequences, FiniteSets, TLC

VARIABLES
    mem,          \* heap: address of a live bucket array |-> the array
    alive,        \* whether the table object is constructed
    hm,           \* the table object: [buckets, table_size, table_capacity]
    hash_stride,  \* which std::hash the build provides (see hash_key)
    last,         \* the last call made on the table and what it returned
    other,        \* a second table object, with the same members as hm
    it,           \* a ConstIterator over hm: [_bucket_index, _pair_index]
    walk          \* the traversal it is in: what it has visited so far

vars == <<mem, alive, hm, hash_stride, last, other, it, walk>>

(***************************************************************************)
(* Bounds of the model.                                                    *)
(***************************************************************************)
MaxKey == 2
MaxVal == 1
\* the specification with the bulk operations: its keys, and the length of
\* the sequences given to the bulk constructor and to update
MaxBulkKey == 1
MaxLen == 2

Keys == 0..MaxKey
Values == 0..MaxVal
BulkKeys == 0..MaxBulkKey
\* the keys of the specification with two tables: two of them, so that the
\* product of the two tables' states stays small
TwoKeys == {0, MaxBulkKey}

(***************************************************************************)
(* Program constants.                                                      *)
(***************************************************************************)
INIT_CAPACITY == 16
INIT_SIZE == 0
MIN_CAPACITY == 1
\* A slip of MAX_LOAD_FACTOR: the value of MIN_LOAD_FACTOR.
MAX_LOAD_FACTOR_Quarter == [num |-> 1, den |-> 4]
MAX_LOAD_FACTOR == [num |-> 3, den |-> 4]
MIN_LOAD_FACTOR == [num |-> 1, den |-> 4]

\* The demo program: it inserts the keys 0..15, reads hashmap[100], and
\* erases 9 keys.
DemoInserts == 16
DemoExtraKey == 100
DemoErasures == 9

\* ValueT(): the value-initialised value operator[] inserts.
DefaultValue == 0

\* The values SpecAll stores: ValueT() and one other.  The table only copies
\* values and compares them for equality, so two of them tell every case apart.
BulkValues == {DefaultValue, MaxVal}

\* std::hash is implementation-defined: the identity (stride 1), or a hash
\* whose low bits are all zero (stride 4), so that keys share buckets.
HashStrides == {1, 4}

hash_key(key) == key * hash_stride

\* a & b on non-negative integers.
RECURSIVE BitAnd(_, _)
BitAnd(a, b) ==
    IF a = 0 \/ b = 0 THEN 0
    ELSE (a % 2) * (b % 2) + 2 * BitAnd(a \div 2, b \div 2)

\* (double)table_size / (double)table_capacity, kept as an exact fraction:
\* the quotient of two ints by a power of two is exact in a double.
get_load_factor(t) == [num |-> t.table_size, den |-> t.table_capacity]

\* A slip of Greater: >= in place of >.
Greater_OrEqual(x, y) == x.num * y.den >= y.num * x.den

\* x > y on fractions with positive denominators.
Greater(x, y) == x.num * y.den > y.num * x.den

\* A slip of Less: <= in place of <.
Less_OrEqual(x, y) == x.num * y.den <= y.num * x.den

\* x < y on fractions with positive denominators.
Less(x, y) == x.num * y.den < y.num * x.den

\* F applied to the value of x, which is computed once.
Bind(x, F(_)) == CHOOSE y \in {F(v) : v \in {x}} : TRUE

(***************************************************************************)
(* The heap.                                                               *)
(***************************************************************************)
\* new std::vector<std::pair<KeyT, ValueT>>[n]: n empty buckets at a fresh
\* address (which address is not observable; the lowest free one is taken).
NewAddr(m) == CHOOSE a \in 1..(Cardinality(DOMAIN m) + 1) : a \notin DOMAIN m
EmptyBuckets(n) == [i \in 0..(n - 1) |-> <<>>]
Store(m, a, arr) == [x \in DOMAIN m \cup {a} |-> IF x = a THEN arr ELSE m[x]]
\* delete [] p
Delete(m, p) == [x \in DOMAIN m \ {p} |-> m[x]]

MakePair(key, value) == [first |-> key, second |-> value]

\* The first index j of bucket holding key (0 when there is none).
RECURSIVE FindFrom(_, _, _)
FindFrom(bucket, key, j) ==
    IF j > Len(bucket) THEN 0
    ELSE IF bucket[j].first = key THEN j
    ELSE FindFrom(bucket, key, j + 1)

\* The last index j of bucket holding key (0 when there is none).
RECURSIVE FindLastFrom(_, _, _, _)
FindLastFrom(bucket, key, j, index) ==
    IF j > Len(bucket) THEN index
    ELSE FindLastFrom(bucket, key, j + 1,
                      IF bucket[j].first = key THEN j ELSE index)

\* A slip of VecErase: the pair is overwritten by the last one, which is
\* popped (the order of the rest is not kept).
VecErase_SwapPop(bucket, i) ==
    [j \in 1..(Len(bucket) - 1) |-> IF j = i THEN bucket[Len(bucket)] ELSE bucket[j]]

\* bucket.erase(bucket.begin() + i), i counted from 1 here.
VecErase(bucket, i) ==
    [j \in 1..(Len(bucket) - 1) |-> IF j < i THEN bucket[j] ELSE bucket[j + 1]]

(***************************************************************************)
(* HashMap: the read-only members.                                         *)
(***************************************************************************)
contains_key(m, t, key) ==
    LET bucket_index == BitAnd(hash_key(key), t.table_capacity - 1)
    IN  FindFrom(m[t.buckets][bucket_index], key, 1) # 0

\* A slip of at: the first pair of the bucket is returned, whatever its key.
at_FirstInBucket(m, t, key) ==
    LET bucket == BitAnd(hash_key(key), t.table_capacity - 1)
    IN  IF Len(m[t.buckets][bucket]) > 0
        THEN [exc |-> "none", msg |-> "", out |-> m[t.buckets][bucket][1].second]
        ELSE [exc |-> "runtime_error", msg |-> "no such key exists!", out |-> -1]

\* A slip of at: ValueT() is returned for a key that is not stored.
at_NoThrow(m, t, key) ==
    LET bucket == BitAnd(hash_key(key), t.table_capacity - 1)
        i == FindFrom(m[t.buckets][bucket], key, 1)
    IN  [exc |-> "none", msg |-> "",
         out |-> IF i # 0 THEN m[t.buckets][bucket][i].second ELSE 0]

at(m, t, key) ==
    LET bucket == BitAnd(hash_key(key), t.table_capacity - 1)
        i == FindFrom(m[t.buckets][bucket], key, 1)
    IN  IF i # 0
        THEN [exc |-> "none", msg |-> "", out |-> m[t.buckets][bucket][i].second]
        ELSE [exc |-> "runtime_error", msg |-> "no such key exists!", out |-> -1]

bucket_index(m, t, key) ==
    IF contains_key(m, t, key)
    THEN [exc |-> "none", msg |-> "",
          out |-> BitAnd(hash_key(key), t.table_capacity - 1)]
    ELSE [exc |-> "runtime_error", msg |-> "no such key exists!", out |-> -1]

bucket_size(m, t, key) ==
    IF contains_key(m, t, key)
    THEN [exc |-> "none", msg |-> "",
          out |-> Len(m[t.buckets][bucket_index(m, t, key).out])]
    ELSE [exc |-> "runtime_error", msg |-> "no such key exists!", out |-> -1]

(***************************************************************************)
(* Rehash: the two nested loops of insert and erase, which push every pair *)
(* of the old array, bucket by bucket, onto its bucket of temp.            *)
(***************************************************************************)
RECURSIVE Rehash(_, _, _, _, _, _)
Rehash(temp, src, i, j, old_capacity, new_capacity) ==
    IF i >= old_capacity THEN temp
    ELSE IF j > Len(src[i])
    THEN Rehash(temp, src, i + 1, 1, old_capacity, new_capacity)
    ELSE LET idx == BitAnd(hash_key(src[i][j].first), new_capacity - 1)
         IN  Rehash([temp EXCEPT ![idx] = Append(@, src[i][j])],
                    src, i, j + 1, old_capacity, new_capacity)

\* A slip of GrowOnce: the pairs are rehashed with the mask of the capacity
\* before it is doubled.
GrowOnce_OldMask(m, t) ==
    LET temp == NewAddr(m)
        filled == Rehash(EmptyBuckets(t.table_capacity * 2), m[t.buckets],
                         0, 1, t.table_capacity, t.table_capacity)
    IN  [mem |-> Delete(Store(m, temp, filled), t.buckets),
         this |-> [t EXCEPT !.buckets = temp,
                            !.table_capacity = t.table_capacity * 2]]

\* One pass of insert's while loop body.
GrowOnce(m, t) ==
    LET temp == NewAddr(m)
        filled == Rehash(EmptyBuckets(t.table_capacity * 2), m[t.buckets],
                         0, 1, t.table_capacity, t.table_capacity * 2)
    IN  [mem |-> Delete(Store(m, temp, filled), t.buckets),
         this |-> [t EXCEPT !.buckets = temp,
                            !.table_capacity = t.table_capacity * 2]]

\* A slip of GrowLoop: the capacity test of erase's loop is repeated here,
\* so that a table of MIN_CAPACITY does not grow.
RECURSIVE GrowLoop_AboveMin(_, _)
GrowLoop_AboveMin(m, t) ==
    IF Greater(get_load_factor(t), MAX_LOAD_FACTOR)
       /\ t.table_capacity > MIN_CAPACITY
    THEN LET r == GrowOnce(m, t) IN GrowLoop_AboveMin(r.mem, r.this)
    ELSE [mem |-> m, this |-> t]

\* insert's while loop: the capacity doubles until the load factor is at
\* most MAX_LOAD_FACTOR.
RECURSIVE GrowLoop(_, _)
GrowLoop(m, t) ==
    IF Greater(get_load_factor(t), MAX_LOAD_FACTOR)
    THEN Bind(GrowOnce(m, t), LAMBDA r : GrowLoop(r.mem, r.this))
    ELSE [mem |-> m, this |-> t]

\* A slip of ShrinkOnce: the pairs are rehashed with the mask of the
\* capacity before it is halved.
ShrinkOnce_OldMask(m, t) ==
    LET temp == NewAddr(m)
        filled == Rehash(EmptyBuckets(t.table_capacity \div 2), m[t.buckets],
                         0, 1, t.table_capacity, t.table_capacity)
    IN  [mem |-> Delete(Store(m, temp, filled), t.buckets),
         this |-> [t EXCEPT !.buckets = temp,
                            !.table_capacity = t.table_capacity \div 2]]

\* One pass of erase's while loop body.
ShrinkOnce(m, t) ==
    LET temp == NewAddr(m)
        filled == Rehash(EmptyBuckets(t.table_capacity \div 2), m[t.buckets],
                         0, 1, t.table_capacity, t.table_capacity \div 2)
    IN  [mem |-> Delete(Store(m, temp, filled), t.buckets),
         this |-> [t EXCEPT !.buckets = temp,
                            !.table_capacity = t.table_capacity \div 2]]

\* A slip of ShrinkLoop: the capacity is halved only while the half is
\* above MIN_CAPACITY.
RECURSIVE ShrinkLoop_HalfAboveMin(_, _)
ShrinkLoop_HalfAboveMin(m, t) ==
    IF Less(get_load_factor(t), MIN_LOAD_FACTOR)
       /\ t.table_capacity \div 2 > MIN_CAPACITY
    THEN LET r == ShrinkOnce(m, t) IN ShrinkLoop_HalfAboveMin(r.mem, r.this)
    ELSE [mem |-> m, this |-> t]

\* A slip of ShrinkLoop: an if in place of the while.
ShrinkLoop_SingleStep(m, t) ==
    IF Less(get_load_factor(t), MIN_LOAD_FACTOR)
       /\ t.table_capacity > MIN_CAPACITY
    THEN ShrinkOnce(m, t)
    ELSE [mem |-> m, this |-> t]

\* A slip of ShrinkLoop: >= in place of > in the test of the capacity.
RECURSIVE ShrinkLoop_BelowMin(_, _)
ShrinkLoop_BelowMin(m, t) ==
    IF Less(get_load_factor(t), MIN_LOAD_FACTOR)
       /\ t.table_capacity >= MIN_CAPACITY
    THEN LET r == ShrinkOnce(m, t) IN ShrinkLoop_BelowMin(r.mem, r.this)
    ELSE [mem |-> m, this |-> t]

RECURSIVE ShrinkLoop(_, _)
ShrinkLoop(m, t) ==
    IF Less(get_load_factor(t), MIN_LOAD_FACTOR)
       /\ t.table_capacity > MIN_CAPACITY
    THEN Bind(ShrinkOnce(m, t), LAMBDA r : ShrinkLoop(r.mem, r.this))
    ELSE [mem |-> m, this |-> t]

(***************************************************************************)
(* HashMap: the mutating members.  Each yields the heap and the object     *)
(* after the call, and what the call returned.                             *)
(***************************************************************************)
\* A slip of insert: the pair is appended without looking for the key.
insert_NoDuplicateCheck(m, t, key, value) ==
    LET bucket_idx == BitAnd(hash_key(key), t.table_capacity - 1)
        m1 == [m EXCEPT ![t.buckets][bucket_idx] =
                            Append(@, MakePair(key, value))]
        t1 == [t EXCEPT !.table_size = t.table_size + 1]
        r == GrowLoop(m1, t1)
    IN  [mem |-> r.mem, this |-> r.this, res |-> TRUE]

\* A slip of insert: the value of a key that is stored is overwritten.
insert_Overwrite(m, t, key, value) ==
    IF contains_key(m, t, key)
    THEN LET bucket_idx == BitAnd(hash_key(key), t.table_capacity - 1)
             i == FindFrom(m[t.buckets][bucket_idx], key, 1)
         IN  [mem |-> [m EXCEPT ![t.buckets][bucket_idx][i].second = value],
              this |-> t, res |-> FALSE]
    ELSE LET bucket_idx == BitAnd(hash_key(key), t.table_capacity - 1)
             m1 == [m EXCEPT ![t.buckets][bucket_idx] =
                                 Append(@, MakePair(key, value))]
             t1 == [t EXCEPT !.table_size = t.table_size + 1]
             r == GrowLoop(m1, t1)
         IN  [mem |-> r.mem, this |-> r.this, res |-> TRUE]

insert(m, t, key, value) ==
    IF contains_key(m, t, key)
    THEN [mem |-> m, this |-> t, res |-> FALSE]
    ELSE LET bucket_idx == BitAnd(hash_key(key), t.table_capacity - 1)
             m1 == [m EXCEPT ![t.buckets][bucket_idx] =
                                 Append(@, MakePair(key, value))]
             t1 == [t EXCEPT !.table_size = t.table_size + 1]
         IN  Bind(GrowLoop(m1, t1),
                  LAMBDA r : [mem |-> r.mem, this |-> r.this, res |-> TRUE])

erase(m, t, key) ==
    IF ~contains_key(m, t, key)
    THEN [mem |-> m, this |-> t, res |-> FALSE]
    ELSE LET bucket_idx == bucket_index(m, t, key).out
             i == FindFrom(m[t.buckets][bucket_idx], key, 1)
             m1 == IF i # 0
                   THEN [m EXCEPT ![t.buckets][bucket_idx] = VecErase(@, i)]
                   ELSE m
             t1 == IF i # 0
                   THEN [t EXCEPT !.table_size = t.table_size - 1]
                   ELSE t
         IN  Bind(ShrinkLoop(m1, t1),
                  LAMBDA r : [mem |-> r.mem, this |-> r.this, res |-> TRUE])

\* A slip of clear: the loop stops one bucket short.
clear_SkipLast(m, t) ==
    [mem |-> [m EXCEPT ![t.buckets] =
                 [i \in 0..(t.table_capacity - 1) |->
                     IF i < t.table_capacity - 1 THEN <<>> ELSE @[i]]],
     this |-> [t EXCEPT !.table_size = 0]]

\* clear(): every bucket is cleared and table_size is set to 0.
clear(m, t) ==
    [mem |-> [m EXCEPT ![t.buckets] =
                 [i \in 0..(t.table_capacity - 1) |-> <<>>]],
     this |-> [t EXCEPT !.table_size = 0]]

\* HashMap(): the object and its bucket array.
DefaultConstruct(m) ==
    LET a == NewAddr(m)
    IN  [mem |-> Store(m, a, EmptyBuckets(INIT_CAPACITY)),
         this |-> [buckets |-> a, table_size |-> INIT_SIZE,
                   table_capacity |-> INIT_CAPACITY]]

\* ~HashMap(): clear(), then delete [] buckets.
Destroy(m, t) == Delete(clear(m, t).mem, t.buckets)

\* A slip of subscript: a key that is not stored is not inserted.
subscript_NoInsert(m, t, key) ==
    LET b == bucket_index(m, t, key)
    IN  IF b.exc # "none"
        THEN [mem |-> m, this |-> t, exc |-> b.exc, msg |-> b.msg,
              bucket |-> -1, index |-> 0]
        ELSE [mem |-> m, this |-> t, exc |-> "none", msg |-> "",
              bucket |-> b.out,
              index |-> FindLastFrom(m[t.buckets][b.out], key, 1, 0)]

\* operator[] (non-const): the reference it returns is the pair's place,
\* (bucket, index); index is the last match of the scan, 0 without one.
subscript(m, t, key) ==
    Bind(IF ~contains_key(m, t, key)
         THEN insert(m, t, key, DefaultValue)
         ELSE [mem |-> m, this |-> t, res |-> FALSE],
         LAMBDA r :
           LET b == bucket_index(r.mem, r.this, key)
           IN  IF b.exc # "none"
               THEN [mem |-> r.mem, this |-> r.this, exc |-> b.exc,
                     msg |-> b.msg, bucket |-> -1, index |-> 0]
               ELSE [mem |-> r.mem, this |-> r.this, exc |-> "none",
                     msg |-> "", bucket |-> b.out,
                     index |-> FindLastFrom(r.mem[r.this.buckets][b.out],
                                            key, 1, 0)])

\* operator[](key) = value: operator[], then the store through the reference.
subscript_assign(m, t, key, value) ==
    Bind(subscript(m, t, key),
         LAMBDA r :
           IF r.exc # "none" THEN r
           ELSE [r EXCEPT !.mem[r.this.buckets][r.bucket][r.index].second =
                              value])

\* HashMap(const HashMap&): a new array of the same capacity, filled pair
\* by pair from the source's buckets.
RECURSIVE CopyBuckets(_, _, _, _, _)
CopyBuckets(dst, src, i, j, capacity) ==
    IF i >= capacity THEN dst
    ELSE IF j > Len(src[i]) THEN CopyBuckets(dst, src, i + 1, 1, capacity)
    ELSE CopyBuckets([dst EXCEPT ![i] = Append(@, src[i][j])],
                     src, i, j + 1, capacity)

\* A slip of copy_construct: the pointer is copied, not the array.
copy_construct_Shallow(m, hashmap) ==
    [mem |-> m,
     this |-> [buckets |-> hashmap.buckets, table_size |-> hashmap.table_size,
               table_capacity |-> hashmap.table_capacity]]

copy_construct(m, hashmap) ==
    LET a == NewAddr(m)
        filled == CopyBuckets(EmptyBuckets(hashmap.table_capacity),
                              m[hashmap.buckets], 0, 1, hashmap.table_capacity)
    IN  [mem |-> Store(m, a, filled),
         this |-> [buckets |-> a, table_size |-> hashmap.table_size,
                   table_capacity |-> hashmap.table_capacity]]

\* operator=: same is `this == &hashmap`.  Otherwise tmp is a copy of the
\* source, the three members are swapped with tmp's, and tmp is destroyed
\* with what the table held before.
assign(m, t, hashmap, same) ==
    IF same THEN [mem |-> m, this |-> t]
    ELSE Bind(copy_construct(m, hashmap),
              LAMBDA tmp : [mem |-> Destroy(tmp.mem, t), this |-> tmp.this])

\* A slip of ConstructLoop: a key that is stored already keeps its value.
RECURSIVE ConstructLoop_KeepFirst(_, _, _, _, _)
ConstructLoop_KeepFirst(m, t, keys, values, i) ==
    IF i > Len(keys) THEN [mem |-> m, this |-> t, exc |-> "none", msg |-> ""]
    ELSE Bind(insert(m, t, keys[i], values[i]),
              LAMBDA r : ConstructLoop_KeepFirst(r.mem, r.this, keys, values,
                                                 i + 1))

\* HashMap(keys, values): the loop over the pairs.
RECURSIVE ConstructLoop(_, _, _, _, _)
ConstructLoop(m, t, keys, values, i) ==
    IF i > Len(keys) THEN [mem |-> m, this |-> t, exc |-> "none", msg |-> ""]
    ELSE Bind(insert(m, t, keys[i], values[i]),
              LAMBDA r :
                IF r.res
                THEN ConstructLoop(r.mem, r.this, keys, values, i + 1)
                ELSE Bind(subscript_assign(r.mem, r.this, keys[i], values[i]),
                          LAMBDA w :
                            IF w.exc # "none"
                            THEN [mem |-> w.mem, this |-> w.this,
                                  exc |-> w.exc, msg |-> w.msg]
                            ELSE ConstructLoop(w.mem, w.this, keys, values,
                                               i + 1)))

construct_from(m, keys, values) ==
    IF Len(keys) # Len(values)
    THEN [mem |-> m, this |-> [buckets |-> 0, table_size |-> 0,
                               table_capacity |-> 0],
          exc |-> "runtime_error", msg |-> "vector sizes don't match!"]
    ELSE Bind(DefaultConstruct(m),
              LAMBDA r : ConstructLoop(r.mem, r.this, keys, values, 1))

\* operator==: the loops over the pairs of *this, bucket i from pair j on.
RECURSIVE EqualsFrom(_, _, _, _, _)
EqualsFrom(m, t, hashmap, i, j) ==
    IF i >= t.table_capacity THEN TRUE
    ELSE IF j > Len(m[t.buckets][i]) THEN EqualsFrom(m, t, hashmap, i + 1, 1)
    ELSE IF ~contains_key(m, hashmap, m[t.buckets][i][j].first) THEN FALSE
    ELSE IF at(m, hashmap, m[t.buckets][i][j].first).out
                # m[t.buckets][i][j].second THEN FALSE
    ELSE EqualsFrom(m, t, hashmap, i, j + 1)

\* A slip of equals: the sizes are not compared.
equals_NoSizeCheck(m, t, hashmap) == EqualsFrom(m, t, hashmap, 0, 1)

equals(m, t, hashmap) ==
    IF t.table_size # hashmap.table_size THEN FALSE
    ELSE EqualsFrom(m, t, hashmap, 0, 1)

not_equals(m, t, hashmap) == ~equals(m, t, hashmap)

(***************************************************************************)
(* ConstIterator.  A position is [_bucket_index, _pair_index], both        *)
(* counted from 0 as in the code.                                          *)
(***************************************************************************)
cend(t) == [_bucket_index |-> t.table_capacity, _pair_index |-> 0]

\* cbegin: the loop over the empty buckets from i on.
RECURSIVE cbegin_from(_, _, _)
cbegin_from(m, t, i) ==
    IF i < t.table_capacity /\ Len(m[t.buckets][i]) = 0
    THEN cbegin_from(m, t, i + 1)
    ELSE IF i = t.table_capacity THEN cend(t)
    ELSE [_bucket_index |-> i, _pair_index |-> 0]

cbegin(m, t) == cbegin_from(m, t, 0)

\* The while loop of operator++, entered with the two indices b and p.
RECURSIVE IncrementLoop(_, _, _, _)
IncrementLoop(m, t, b, p) ==
    IF ~(b < t.table_capacity) THEN [_bucket_index |-> b, _pair_index |-> 0]
    ELSE IF p < Len(m[t.buckets][b])
    THEN [_bucket_index |-> b, _pair_index |-> p]
    ELSE IF b + 1 < t.table_capacity /\ Len(m[t.buckets][b + 1]) # 0
    THEN [_bucket_index |-> b + 1, _pair_index |-> 0]
    ELSE IncrementLoop(m, t, b + 1, 0)

\* A slip of increment: the rest of the bucket is skipped.
increment_NextBucket(m, t, c) ==
    IF c._bucket_index >= t.table_capacity THEN c
    ELSE IncrementLoop(m, t, c._bucket_index + 1, 0)

\* A slip of increment: the end position is advanced as well.
increment_PastEnd(m, t, c) ==
    IF c._bucket_index >= t.table_capacity
    THEN [c EXCEPT !._bucket_index = @ + 1]
    ELSE IncrementLoop(m, t, c._bucket_index, c._pair_index + 1)

\* operator++
increment(m, t, c) ==
    IF c._bucket_index >= t.table_capacity THEN c
    ELSE IncrementLoop(m, t, c._bucket_index, c._pair_index + 1)

\* A slip of dereference: the pair index is not compared with the size of
\* the bucket; what is read past the end of a bucket is no pair of the table.
dereference_EndOnly(m, t, c) ==
    IF c._bucket_index >= t.table_capacity
    THEN [exc |-> "out_of_range",
          msg |-> "HashMap iterator: dereference of end()", pair |-> <<>>]
    ELSE [exc |-> "none", msg |-> "",
          pair |-> IF c._pair_index < Len(m[t.buckets][c._bucket_index])
                   THEN m[t.buckets][c._bucket_index][c._pair_index + 1]
                   ELSE MakePair(-1, -1)]

\* operator*
dereference(m, t, c) ==
    IF c._bucket_index >= t.table_capacity
    THEN [exc |-> "out_of_range",
          msg |-> "HashMap iterator: dereference of end()", pair |-> <<>>]
    ELSE IF c._pair_index >= Len(m[t.buckets][c._bucket_index])
    THEN [exc |-> "out_of_range",
          msg |-> "HashMap iterator: invalid pair index", pair |-> <<>>]
    ELSE [exc |-> "none", msg |-> "",
          pair |-> m[t.buckets][c._bucket_index][c._pair_index + 1]]

\* ConstIterator::operator== of two iterators over the same table.
iterator_equals(c, rhs) ==
    c._bucket_index = rhs._bucket_index /\ c._pair_index = rhs._pair_index

(***************************************************************************)
(* Dictionary.                                                             *)
(***************************************************************************)
\* A slip of Dictionary::erase: the base class's answer for a missing key.
dictionary_erase_NoThrow(m, t, key) ==
    LET r == erase(m, t, key)
    IN  [mem |-> r.mem, this |-> r.this, res |-> r.res,
         exc |-> "none", msg |-> ""]

dictionary_erase(m, t, key) ==
    IF ~contains_key(m, t, key)
    THEN [mem |-> m, this |-> t, res |-> FALSE,
          exc |-> "InvalidKey", msg |-> "Invalid Key!"]
    ELSE Bind(erase(m, t, key),
              LAMBDA r : [mem |-> r.mem, this |-> r.this, res |-> r.res,
                          exc |-> "none", msg |-> ""])

\* A slip of update: insert in place of operator[], so that a key that is
\* stored keeps its value.
RECURSIVE update_InsertOnly(_, _, _, _)
update_InsertOnly(m, t, pairs, i) ==
    IF i > Len(pairs) THEN [mem |-> m, this |-> t, exc |-> "none", msg |-> ""]
    ELSE Bind(insert(m, t, pairs[i].first, pairs[i].second),
              LAMBDA w : update_InsertOnly(w.mem, w.this, pairs, i + 1))

\* Dictionary::update over the range [begin, end) of pairs.
RECURSIVE update(_, _, _, _)
update(m, t, pairs, i) ==
    IF i > Len(pairs) THEN [mem |-> m, this |-> t, exc |-> "none", msg |-> ""]
    ELSE Bind(subscript_assign(m, t, pairs[i].first, pairs[i].second),
              LAMBDA w :
                IF w.exc # "none"
                THEN [mem |-> w.mem, this |-> w.this,
                      exc |-> w.exc, msg |-> w.msg]
                ELSE update(w.mem, w.this, pairs, i + 1))

(***************************************************************************)
(* The calls a program makes on the table, one action each.  The table is  *)
(* constructed by one of its constructors, used, and destroyed; last       *)
(* records the call: its name and arguments (-1 where it has none), the    *)
(* bool it returned (res), the number or value it returned (out, -1 where  *)
(* none), and the exception it threw (exc, msg).                           *)
(***************************************************************************)
Call(op, key, val, res, out, exc, msg) ==
    [op |-> op, key |-> key, val |-> val, res |-> res, out |-> out,
     exc |-> exc, msg |-> msg,
     \* history: the capacity the call found, and whether the call before
     \* it was a successful insert of the same key
     cap |-> hm.table_capacity,
     after_insert |-> (key # -1 /\ last.op = "insert" /\ last.res
                       /\ last.key = key),
     \* the sequences given to a bulk call, where the record keeps them
     args |-> <<>>]

\* The members of an object that is not constructed.
NoObject == [buckets |-> 0, table_size |-> 0, table_capacity |-> 0]

\* No iterator has been made.
NoIterator == [_bucket_index |-> -1, _pair_index |-> -1]

\* No traversal is recorded.  A traversal records the table it began on
\* (heap and members), the positions of the pairs it has come to (seen), the
\* number of times it was advanced, and, when it began at the end of another
\* traversal of the same table, what that one had seen (before).
NoWalk == [mem |-> <<>>, hm |-> NoObject, seen |-> <<>>, advances |-> 0,
           before |-> <<>>, again |-> FALSE]

\* Sequences of length at most n over S.
SeqUpTo(S, n) == UNION {[1..k -> S] : k \in 0..n}

Init ==
    /\ hash_stride \in HashStrides
    /\ mem = <<>>
    /\ alive = FALSE
    /\ hm = NoObject
    /\ last = [op |-> "start", key |-> -1, val |-> -1, res |-> FALSE,
               out |-> -1, exc |-> "none", msg |-> "", cap |-> 0,
               after_insert |-> FALSE, args |-> <<>>]
    /\ other = NoObject
    /\ it = NoIterator
    /\ walk = NoWalk

\* HashMap()
Construct ==
    /\ ~alive
    /\ \E r \in {DefaultConstruct(mem)} :
        /\ mem' = r.mem
        /\ hm' = r.this
        /\ alive' = TRUE
        /\ last' = Call("HashMap", -1, -1, FALSE, -1, "none", "")
        /\ UNCHANGED <<hash_stride, other, it, walk>>

\* HashMap(keys, values); no object exists when the constructor throws.
ConstructFrom(keys, values) ==
    /\ ~alive
    /\ \E r \in {construct_from(mem, keys, values)} :
        /\ mem' = r.mem
        /\ hm' = IF r.exc = "none" THEN r.this ELSE NoObject
        /\ alive' = (r.exc = "none")
        /\ last' = Call("HashMap(keys, values)", -1, -1, FALSE, Len(keys),
                        r.exc, r.msg)
        /\ UNCHANGED <<hash_stride, other, it, walk>>

\* HashMap copy(hm), after which hm goes out of scope and the copy is the
\* table the program goes on with.
CopyConstruct ==
    /\ alive
    /\ \E r \in {copy_construct(mem, hm)} :
        /\ mem' = Destroy(r.mem, hm)
        /\ hm' = r.this
        /\ last' = Call("HashMap(const HashMap&)", -1, -1, FALSE, -1, "none", "")
        /\ UNCHANGED <<alive, hash_stride, other, it, walk>>

\* hm = hm
AssignSelf ==
    /\ alive
    /\ \E r \in {assign(mem, hm, hm, TRUE)} :
        /\ mem' = r.mem
        /\ hm' = r.this
        /\ last' = Call("operator=(self)", -1, -1, FALSE, -1, "none", "")
        /\ UNCHANGED <<alive, hash_stride, other, it, walk>>

\* hm = HashMap(hm): the temporary copy is the source, destroyed afterwards.
AssignCopy ==
    /\ alive
    /\ \E src \in {copy_construct(mem, hm)} :
       \E r \in {assign(src.mem, hm, src.this, FALSE)} :
        /\ mem' = Destroy(r.mem, src.this)
        /\ hm' = r.this
        /\ last' = Call("operator=(copy)", -1, -1, FALSE, -1, "none", "")
        /\ UNCHANGED <<alive, hash_stride, other, it, walk>>

\* hm = HashMap(): the empty temporary is the source, destroyed afterwards.
AssignEmpty ==
    /\ alive
    /\ \E src \in {DefaultConstruct(mem)} :
       \E r \in {assign(src.mem, hm, src.this, FALSE)} :
        /\ mem' = Destroy(r.mem, src.this)
        /\ hm' = r.this
        /\ last' = Call("operator=(empty)", -1, -1, FALSE, -1, "none", "")
        /\ UNCHANGED <<alive, hash_stride, other, it, walk>>

\* ~HashMap()
Destruct ==
    /\ alive
    /\ mem' = Destroy(mem, hm)
    /\ hm' = NoObject
    /\ alive' = FALSE
    /\ last' = Call("~HashMap", -1, -1, FALSE, -1, "none", "")
    /\ UNCHANGED <<hash_stride, other, it, walk>>

Insert(key, value) ==
    /\ alive
    /\ \E r \in {insert(mem, hm, key, value)} :
        /\ mem' = r.mem
        /\ hm' = r.this
        /\ last' = Call("insert", key, value, r.res, -1, "none", "")
        /\ UNCHANGED <<alive, hash_stride, other, it, walk>>

\* HashMap::erase
Erase(key) ==
    /\ alive
    /\ \E r \in {erase(mem, hm, key)} :
        /\ mem' = r.mem
        /\ hm' = r.this
        /\ last' = Call("erase", key, -1, r.res, -1, "none", "")
        /\ UNCHANGED <<alive, hash_stride, other, it, walk>>

\* Dictionary::erase
DictErase(key) ==
    /\ alive
    /\ \E r \in {dictionary_erase(mem, hm, key)} :
        /\ mem' = r.mem
        /\ hm' = r.this
        /\ last' = Call("Dictionary::erase", key, -1, r.res, -1, r.exc, r.msg)
        /\ UNCHANGED <<alive, hash_stride, other, it, walk>>

\* Dictionary::update
Update(pairs) ==
    /\ alive
    /\ \E r \in {update(mem, hm, pairs, 1)} :
        /\ mem' = r.mem
        /\ hm' = r.this
        /\ last' = Call("update", -1, -1, FALSE, Len(pairs), r.exc, r.msg)
        /\ UNCHANGED <<alive, hash_stride, other, it, walk>>

\* HashMap(keys, values), as ConstructFrom; the call record keeps the two
\* vectors given.
ConstructGiven(keys, values) ==
    /\ ~alive
    /\ \E r \in {construct_from(mem, keys, values)} :
        /\ mem' = r.mem
        /\ hm' = IF r.exc = "none" THEN r.this ELSE NoObject
        /\ alive' = (r.exc = "none")
        /\ last' = [Call("HashMap(keys, values)", -1, -1, FALSE, Len(keys),
                         r.exc, r.msg) EXCEPT !.args = <<keys, values>>]
        /\ UNCHANGED <<hash_stride, other, it, walk>>

\* Dictionary::update, as Update; the call record keeps the pairs given.
\* A bulk call is not followed by another at once: the tables a sequence of
\* update calls leads to are those the calls of operator[] lead to.
UpdateGiven(pairs) ==
    /\ alive
    /\ last.op # "update"
    /\ \E r \in {update(mem, hm, pairs, 1)} :
        /\ mem' = r.mem
        /\ hm' = r.this
        /\ last' = [Call("update", -1, -1, FALSE, Len(pairs), r.exc, r.msg)
                       EXCEPT !.args = pairs]
        /\ UNCHANGED <<alive, hash_stride, other, it, walk>>

Clear ==
    /\ alive
    /\ \E r \in {clear(mem, hm)} :
        /\ mem' = r.mem
        /\ hm' = r.this
        /\ last' = Call("clear", -1, -1, FALSE, -1, "none", "")
        /\ UNCHANGED <<alive, hash_stride, other, it, walk>>

\* hm[key], read through the reference.
Subscript(key) ==
    /\ alive
    /\ \E r \in {subscript(mem, hm, key)} :
        /\ mem' = r.mem
        /\ hm' = r.this
        /\ last' = Call("operator[]", key, -1, FALSE,
                        IF r.exc = "none"
                        THEN r.mem[r.this.buckets][r.bucket][r.index].second
                        ELSE -1,
                        r.exc, r.msg)
        /\ UNCHANGED <<alive, hash_stride, other, it, walk>>

\* hm[key] = value
SubscriptAssign(key, value) ==
    /\ alive
    /\ \E r \in {subscript_assign(mem, hm, key, value)} :
        /\ mem' = r.mem
        /\ hm' = r.this
        /\ last' = Call("operator[]=", key, value, FALSE, -1, r.exc, r.msg)
        /\ UNCHANGED <<alive, hash_stride, other, it, walk>>

ContainsKey(key) ==
    /\ alive
    /\ last' = Call("contains_key", key, -1, contains_key(mem, hm, key), -1,
                    "none", "")
    /\ UNCHANGED <<mem, alive, hm, hash_stride, other, it, walk>>

At(key) ==
    /\ alive
    /\ \E r \in {at(mem, hm, key)} :
        /\ last' = Call("at", key, -1, FALSE, r.out, r.exc, r.msg)
        /\ UNCHANGED <<mem, alive, hm, hash_stride, other, it, walk>>

\* operator[] const
ConstSubscript(key) ==
    /\ alive
    /\ \E r \in {at(mem, hm, key)} :
        /\ last' = Call("operator[] const", key, -1, FALSE, r.out, r.exc, r.msg)
        /\ UNCHANGED <<mem, alive, hm, hash_stride, other, it, walk>>

BucketSize(key) ==
    /\ alive
    /\ \E r \in {bucket_size(mem, hm, key)} :
        /\ last' = Call("bucket_size", key, -1, FALSE, r.out, r.exc, r.msg)
        /\ UNCHANGED <<mem, alive, hm, hash_stride, other, it, walk>>

BucketIndex(key) ==
    /\ alive
    /\ \E r \in {bucket_index(mem, hm, key)} :
        /\ last' = Call("bucket_index", key, -1, FALSE, r.out, r.exc, r.msg)
        /\ UNCHANGED <<mem, alive, hm, hash_stride, other, it, walk>>

(***************************************************************************)
(* The calls on a second table, other, and the calls that take the two.    *)
(***************************************************************************)
\* HashMap other;
OtherConstruct ==
    /\ other = NoObject
    /\ \E r \in {DefaultConstruct(mem)} :
        /\ mem' = r.mem
        /\ other' = r.this
        /\ last' = Call("other.HashMap", -1, -1, FALSE, -1, "none", "")
        /\ UNCHANGED <<alive, hm, hash_stride, it, walk>>

\* HashMap other(hm);
OtherCopy ==
    /\ alive /\ other = NoObject
    /\ \E r \in {copy_construct(mem, hm)} :
        /\ mem' = r.mem
        /\ other' = r.this
        /\ last' = Call("other.HashMap(hm)", -1, -1, FALSE, -1, "none", "")
        /\ UNCHANGED <<alive, hm, hash_stride, it, walk>>

\* other = hm;
OtherAssign ==
    /\ alive /\ other # NoObject
    /\ \E r \in {assign(mem, other, hm, FALSE)} :
        /\ mem' = r.mem
        /\ other' = r.this
        /\ last' = Call("other = hm", -1, -1, FALSE, -1, "none", "")
        /\ UNCHANGED <<alive, hm, hash_stride, it, walk>>

\* hm = other;
AssignOther ==
    /\ alive /\ other # NoObject
    /\ \E r \in {assign(mem, hm, other, FALSE)} :
        /\ mem' = r.mem
        /\ hm' = r.this
        /\ last' = Call("hm = other", -1, -1, FALSE, -1, "none", "")
        /\ UNCHANGED <<alive, hash_stride, other, it, walk>>

\* other.~HashMap()
OtherDestruct ==
    /\ other # NoObject
    /\ mem' = Destroy(mem, other)
    /\ other' = NoObject
    /\ last' = Call("other.~HashMap", -1, -1, FALSE, -1, "none", "")
    /\ UNCHANGED <<alive, hm, hash_stride, it, walk>>

OtherInsert(key, value) ==
    /\ other # NoObject
    /\ \E r \in {insert(mem, other, key, value)} :
        /\ mem' = r.mem
        /\ other' = r.this
        /\ last' = Call("other.insert", -1, -1, r.res, -1, "none", "")
        /\ UNCHANGED <<alive, hm, hash_stride, it, walk>>

OtherErase(key) ==
    /\ other # NoObject
    /\ \E r \in {erase(mem, other, key)} :
        /\ mem' = r.mem
        /\ other' = r.this
        /\ last' = Call("other.erase", -1, -1, r.res, -1, "none", "")
        /\ UNCHANGED <<alive, hm, hash_stride, it, walk>>

\* other[key] = value
OtherSubscriptAssign(key, value) ==
    /\ other # NoObject
    /\ \E r \in {subscript_assign(mem, other, key, value)} :
        /\ mem' = r.mem
        /\ other' = r.this
        /\ last' = Call("other.operator[]=", -1, -1, FALSE, -1, r.exc, r.msg)
        /\ UNCHANGED <<alive, hm, hash_stride, it, walk>>

OtherClear ==
    /\ other # NoObject
    /\ \E r \in {clear(mem, other)} :
        /\ mem' = r.mem
        /\ other' = r.this
        /\ last' = Call("other.clear", -1, -1, FALSE, -1, "none", "")
        /\ UNCHANGED <<alive, hm, hash_stride, it, walk>>

\* hm == other
Equals ==
    /\ alive /\ other # NoObject
    /\ last' = Call("operator==", -1, -1, equals(mem, hm, other), -1, "none", "")
    /\ UNCHANGED <<mem, alive, hm, hash_stride, other, it, walk>>

\* other == hm
EqualsReversed ==
    /\ alive /\ other # NoObject
    /\ last' = Call("operator==(reversed)", -1, -1, equals(mem, other, hm), -1,
                    "none", "")
    /\ UNCHANGED <<mem, alive, hm, hash_stride, other, it, walk>>

\* hm != other
NotEquals ==
    /\ alive /\ other # NoObject
    /\ last' = Call("operator!=", -1, -1, not_equals(mem, hm, other), -1,
                    "none", "")
    /\ UNCHANGED <<mem, alive, hm, hash_stride, other, it, walk>>

(***************************************************************************)
(* The calls on an iterator it over hm.  The calls that change hm leave it *)
(* as it is.  walk follows a traversal for as long as the table is the one *)
(* it began on; a call on it after the table has changed ends the record.  *)
(***************************************************************************)
Fresh == alive /\ it # NoIterator /\ walk.mem = mem /\ walk.hm = hm

\* it = hm.begin()
Begin ==
    /\ alive
    /\ \E c \in {cbegin(mem, hm)} :
        /\ it' = c
        /\ walk' = [mem |-> mem, hm |-> hm,
                    seen |-> IF iterator_equals(c, cend(hm)) THEN <<>> ELSE <<c>>,
                    advances |-> 0,
                    before |-> IF Fresh /\ iterator_equals(it, cend(hm))
                               THEN walk.seen ELSE <<>>,
                    again |-> Fresh /\ iterator_equals(it, cend(hm))]
        /\ last' = Call("begin", -1, -1, FALSE, -1, "none", "")
        /\ UNCHANGED <<mem, alive, hm, hash_stride, other>>

\* ++it
Advance ==
    /\ alive /\ it # NoIterator
    /\ \E c \in {increment(mem, hm, it)} :
        /\ it' = c
        /\ walk' = IF ~Fresh THEN NoWalk
                   ELSE IF iterator_equals(it, cend(hm)) THEN walk
                   ELSE [walk EXCEPT
                           !.advances = @ + 1,
                           !.seen = IF iterator_equals(c, cend(hm)) THEN @
                                    ELSE Append(@, c)]
        /\ last' = Call("operator++", -1, -1, FALSE, -1, "none", "")
        /\ UNCHANGED <<mem, alive, hm, hash_stride, other>>

\* *it: the call record holds the pair's key and value.
Deref ==
    /\ alive /\ it # NoIterator
    /\ \E r \in {dereference(mem, hm, it)} :
        /\ walk' = IF Fresh THEN walk ELSE NoWalk
        /\ last' = IF r.exc = "none"
                   THEN Call("operator*", r.pair.first, r.pair.second, FALSE, -1,
                             "none", "")
                   ELSE Call("operator*", -1, -1, FALSE, -1, r.exc, r.msg)
        /\ UNCHANGED <<mem, alive, hm, hash_stride, other, it>>

\* it == hm.end()
IsEnd ==
    /\ alive /\ it # NoIterator
    /\ walk' = IF Fresh THEN walk ELSE NoWalk
    /\ last' = Call("it == end()", -1, -1, iterator_equals(it, cend(hm)), -1,
                    "none", "")
    /\ UNCHANGED <<mem, alive, hm, hash_stride, other, it>>

(***************************************************************************)
(* The demo program's calls on its table: the inserts of 0..15, the read   *)
(* of hashmap[100], which the model may leave out, and the erasures, here  *)
(* of the least or the greatest of the keys 0..15 still stored.            *)
(***************************************************************************)
DemoKeys == 0..(DemoInserts - 1)

\* The keys of DemoKeys that were erased.
DemoErased(m, t) ==
    {k \in DemoKeys : ~contains_key(m, t, k)}

DemoInsert ==
    /\ alive
    /\ last.op \in {"HashMap", "insert"}
    /\ hm.table_size < DemoInserts
    /\ Insert(hm.table_size, MaxVal)

DemoSubscript ==
    /\ alive
    /\ last.op = "insert" /\ hm.table_size = DemoInserts
    /\ Subscript(DemoExtraKey)

DemoErase ==
    /\ alive
    /\ \/ last.op = "insert" /\ hm.table_size = DemoInserts
       \/ last.op \in {"operator[]", "erase"}
    /\ Cardinality(DemoErased(mem, hm)) < DemoErasures
    /\ \E key \in DemoKeys \ DemoErased(mem, hm) :
          /\ \/ \A k \in DemoKeys \ DemoErased(mem, hm) : key <= k
             \/ \A k \in DemoKeys \ DemoErased(mem, hm) : key >= k
          /\ Erase(key)

(***************************************************************************)
(* Spec: one table and the calls that take one key, over Keys.             *)
(***************************************************************************)
Next ==
    \/ Construct
    \/ Destruct
    \/ \E key \in Keys, value \in Values : Insert(key, value)
    \/ \E key \in Keys : Erase(key)
    \/ \E key \in Keys : DictErase(key)
    \/ Clear
    \/ \E key \in Keys : Subscript(key)
    \/ \E key \in Keys, value \in Values : SubscriptAssign(key, value)
    \/ \E key \in Keys : ContainsKey(key)
    \/ \E key \in Keys : At(key)
    \/ \E key \in Keys : ConstSubscript(key)
    \/ \E key \in Keys : BucketSize(key)
    \/ \E key \in Keys : BucketIndex(key)

Spec == Init /\ [][Next]_vars

(***************************************************************************)
(* SpecAll: every call that changes the table, the bulk constructor, copy  *)
(* construction, assignment and update included, over BulkKeys.            *)
(***************************************************************************)
NextAll ==
    \/ Construct
    \/ \E keys \in SeqUpTo(BulkKeys, MaxLen), values \in SeqUpTo(BulkValues, MaxLen) :
          ConstructFrom(keys, values)
    \/ CopyConstruct
    \/ AssignSelf
    \/ AssignCopy
    \/ AssignEmpty
    \/ Destruct
    \/ \E key \in BulkKeys, value \in BulkValues : Insert(key, value)
    \/ \E key \in BulkKeys : Erase(key)
    \/ Clear
    \/ \E key \in BulkKeys, value \in BulkValues : SubscriptAssign(key, value)
    \/ \E pairs \in SeqUpTo({MakePair(k, v) : k \in BulkKeys, v \in BulkValues}, MaxLen) :
          Update(pairs)

SpecAll == Init /\ [][NextAll]_vars

(***************************************************************************)
(* SpecBulk: one table and the two calls that take sequences, whose        *)
(* arguments the call record keeps, over BulkKeys.                         *)
(***************************************************************************)
NextBulk ==
    \/ Construct
    \/ \E keys \in SeqUpTo(BulkKeys, MaxLen), values \in SeqUpTo(BulkValues, MaxLen) :
          ConstructGiven(keys, values)
    \/ Destruct
    \/ \E key \in BulkKeys, value \in BulkValues : SubscriptAssign(key, value)
    \/ \E key \in BulkKeys : Erase(key)
    \/ \E pairs \in SeqUpTo({MakePair(k, v) : k \in BulkKeys, v \in BulkValues}, MaxLen) :
          UpdateGiven(pairs)

SpecBulk == Init /\ [][NextBulk]_vars

(***************************************************************************)
(* SpecDemo: the demo program's table.                                     *)
(***************************************************************************)
NextDemo ==
    \/ Construct
    \/ DemoInsert
    \/ DemoSubscript
    \/ DemoErase

SpecDemo == Init /\ [][NextDemo]_vars

(***************************************************************************)
(* SpecTwo: two tables on one heap, the calls that change either and the   *)
(* calls that take both, over TwoKeys.                                     *)
(***************************************************************************)
NextTwo ==
    \/ Construct
    \/ \E key \in TwoKeys, value \in BulkValues : Insert(key, value)
    \/ \E key \in TwoKeys : Erase(key)
    \/ \E key \in TwoKeys, value \in BulkValues : SubscriptAssign(key, value)
    \/ Clear
    \/ AssignSelf
    \/ OtherConstruct
    \/ OtherCopy
    \/ OtherAssign
    \/ AssignOther
    \/ OtherDestruct
    \/ \E key \in TwoKeys, value \in BulkValues : OtherInsert(key, value)
    \/ \E key \in TwoKeys : OtherErase(key)
    \/ \E key \in TwoKeys, value \in BulkValues : OtherSubscriptAssign(key, value)
    \/ OtherClear
    \/ Equals
    \/ EqualsReversed
    \/ NotEquals

SpecTwo == Init /\ [][NextTwo]_vars

(***************************************************************************)
(* SpecIter: one table, the calls that change it, and an iterator over it. *)
(* The iterator never looks at a value, so one value is stored.            *)
(***************************************************************************)
NextIter ==
    \/ Construct
    \/ \E key \in Keys : Insert(key, MaxVal)
    \/ \E key \in Keys : Erase(key)
    \/ Clear
    \/ Begin
    \/ Advance
    \/ Deref
    \/ IsEnd

SpecIter == Init /\ [][NextIter]_vars

(***************************************************************************)
(* What the properties speak of: the contents of the table read off the    *)
(* bucket array itself, without the hash.                                  *)
(***************************************************************************)
Array(m, t) == m[t.buckets]

\* The places (bucket, index) that hold a pair, and the pair at a place.
Places(m, t) ==
    UNION {{<<i, j>> : j \in 1..Len(Array(m, t)[i])} : i \in DOMAIN Array(m, t)}
PairAt(m, t, p) == Array(m, t)[p[1]][p[2]]

\* key is stored somewhere in the table.
Stored(m, t, key) == \E p \in Places(m, t) : PairAt(m, t, p).first = key

\* The values stored with key (one value, when keys are unique).
ValuesOf(m, t, key) ==
    {PairAt(m, t, p).second : p \in {q \in Places(m, t) : PairAt(m, t, q).first = key}}

\* The bucket key hashes to, at the capacity of t.
Slot(t, key) == BitAnd(hash_key(key), t.table_capacity - 1)

IsPowerOfTwo(n) == \E e \in 0..n : 2 ^ e = n

KeyNotFound(r) == r.exc = "runtime_error" /\ r.msg = "no such key exists!"

\* bucket without its first pair of key.
RECURSIVE Without(_, _)
Without(bucket, key) ==
    IF bucket = <<>> THEN <<>>
    ELSE IF Head(bucket).first = key THEN Tail(bucket)
    ELSE <<Head(bucket)>> \o Without(Tail(bucket), key)

(***************************************************************************)
(* C1.  As claimed: after any insert or erase returns, whatever its        *)
(* result, 0.25 <= size/capacity <= 0.75 whenever size > 0 and             *)
(* capacity > 1.  This fails: insert never shrinks, and an erase that      *)
(* returns false changes nothing, so a table of capacity 16 holding one    *)
(* pair stays at 1/16.                                                     *)
(***************************************************************************)
C1_LoadFactorBothBounds ==
    (alive /\ last.op \in {"insert", "erase"}
           /\ hm.table_size > 0 /\ hm.table_capacity > 1)
        => /\ hm.table_capacity <= 4 * hm.table_size
           /\ 4 * hm.table_size <= 3 * hm.table_capacity

\* C1, amended: after any insert or erase returns, size/capacity <= 0.75;
\* after an erase that returned true, moreover, size/capacity >= 0.25
\* whenever size > 0 and capacity > 1.
C1_LoadFactorAfterInsertErase ==
    (alive /\ last.op \in {"insert", "erase"})
        => /\ 4 * hm.table_size <= 3 * hm.table_capacity
           /\ (last.op = "erase" /\ last.res
               /\ hm.table_size > 0 /\ hm.table_capacity > 1)
                  => hm.table_capacity <= 4 * hm.table_size

\* An erase that returned true after halving the capacity more than once,
\* and left the load factor at 0.25 exactly.
C1_Witness ==
    /\ alive /\ last.op = "erase" /\ last.res
    /\ hm.table_size > 0 /\ hm.table_capacity > 1
    /\ last.cap >= 4 * hm.table_capacity
    /\ hm.table_capacity = 4 * hm.table_size

(***************************************************************************)
(* C2.  After each call of any sequence of construct, insert, erase,       *)
(* indexed-write, clear, copy and assign calls, the capacity is a power    *)
(* of two and at least 1.                                                  *)
(***************************************************************************)
C2_CapacityPowerOfTwo ==
    alive => /\ hm.table_capacity >= 1
             /\ IsPowerOfTwo(hm.table_capacity)
             /\ DOMAIN Array(mem, hm) = 0..(hm.table_capacity - 1)

\* An erase that halved the capacity down to 1.
C2_Witness ==
    /\ alive /\ last.op = "erase" /\ last.res
    /\ last.cap > 1 /\ hm.table_capacity = 1

(***************************************************************************)
(* C3.  Every pair stored in bucket i has hash(key) & (capacity-1) = i, so *)
(* that contains_key and at, which search that bucket only, find every     *)
(* stored key.                                                             *)
(***************************************************************************)
C3_PairsInTheirBucket ==
    alive => \A p \in Places(mem, hm) :
                 /\ Slot(hm, PairAt(mem, hm, p).first) = p[1]
                 /\ contains_key(mem, hm, PairAt(mem, hm, p).first)
                 /\ at(mem, hm, PairAt(mem, hm, p).first).exc = "none"

\* After a rehash (the call found another capacity), two pairs lie in two
\* buckets, one of them not bucket 0.
C3_Witness ==
    /\ alive /\ last.op \in {"insert", "erase"} /\ last.res
    /\ last.cap # hm.table_capacity
    /\ \E p, q \in Places(mem, hm) : p[1] # q[1] /\ p[1] # 0

(***************************************************************************)
(* C4.  size() is the sum of the lengths of the buckets, and no two stored *)
(* pairs have equal keys, after any sequence of insert, erase,             *)
(* indexed-write, bulk construct, update, clear, copy and assign.          *)
(***************************************************************************)
C4_SizeAndUniqueKeys ==
    alive => /\ hm.table_size = Cardinality(Places(mem, hm))
             /\ \A p, q \in Places(mem, hm) :
                    PairAt(mem, hm, p).first = PairAt(mem, hm, q).first => p = q

\* An update whose pairs did not all add a key: the table holds fewer
\* pairs than update was given.
C4_Witness ==
    /\ alive /\ last.op = "update" /\ last.out = MaxLen
    /\ hm.table_size > 0 /\ hm.table_size < MaxLen

(***************************************************************************)
(* C5.  Round trip: an insert(k, v) of a key that is not stored returns    *)
(* true, and then contains_key(k) holds and at(k) is v, growth or not; an  *)
(* erase(k) that follows it returns true, and then contains_key(k) fails   *)
(* and at(k) throws "no such key exists!", shrink or not.                  *)
(***************************************************************************)
C5_RoundTrip ==
    [][/\ (last'.op = "insert" /\ ~Stored(mem, hm, last'.key))
            => /\ last'.res
               /\ contains_key(mem', hm', last'.key)
               /\ at(mem', hm', last'.key) =
                      [exc |-> "none", msg |-> "", out |-> last'.val]
       /\ (last.op = "insert" /\ last.res
           /\ last'.op = "erase" /\ last'.key = last.key)
            => /\ last'.res
               /\ ~contains_key(mem', hm', last'.key)
               /\ ~Stored(mem', hm', last'.key)
               /\ KeyNotFound(at(mem', hm', last'.key))]_vars

\* The erase of the round trip has returned, having halved the capacity
\* more than once.
C5_Witness ==
    /\ alive /\ last.op = "erase" /\ last.after_insert /\ last.res
    /\ last.cap >= 4 * hm.table_capacity

(***************************************************************************)
(* C6.  An insert or erase that returns true changes the table at its key  *)
(* only: for every other key, contains_key and at answer as before, and    *)
(* the key is stored with the same value, once, however often the call     *)
(* rehashed.                                                               *)
(***************************************************************************)
C6_OtherKeysKept ==
    [][(last'.op \in {"insert", "erase"} /\ last'.res)
          => \A k \in (Keys \cup BulkKeys) \ {last'.key} :
                /\ contains_key(mem', hm', k) = contains_key(mem, hm, k)
                /\ at(mem', hm', k) = at(mem, hm, k)
                /\ ValuesOf(mem', hm', k) = ValuesOf(mem, hm, k)
                /\ Cardinality({p \in Places(mem', hm') :
                                   PairAt(mem', hm', p).first = k})
                     = Cardinality({p \in Places(mem, hm) :
                                       PairAt(mem, hm, p).first = k})]_vars

\* An erase that halved the capacity more than once and left other pairs.
C6_Witness ==
    /\ alive /\ last.op = "erase" /\ last.res
    /\ last.cap >= 4 * hm.table_capacity
    /\ hm.table_size >= 1

(***************************************************************************)
(* C7.  Duplicate insert: insert(k, v1) of a key that is not stored        *)
(* returns true; the insert(k, v2) that follows it returns false and       *)
(* changes nothing: size, capacity and buckets are as before and at(k) is  *)
(* still v1.                                                               *)
(***************************************************************************)
C7_DuplicateInsert ==
    [][/\ (last'.op = "insert" /\ ~Stored(mem, hm, last'.key)) => last'.res
       /\ (last.op = "insert" /\ last.res
           /\ last'.op = "insert" /\ last'.key = last.key)
            => /\ ~last'.res
               /\ mem' = mem /\ hm' = hm
               /\ at(mem', hm', last'.key) =
                      [exc |-> "none", msg |-> "", out |-> last.val]]_vars

\* The second insert has returned false, given another value than the one
\* the key is stored with.
C7_Witness ==
    /\ alive /\ last.op = "insert" /\ last.after_insert /\ ~last.res
    /\ at(mem, hm, last.key).out # last.val

(***************************************************************************)
(* C8.  at, operator[] const, bucket_size and bucket_index throw "no such  *)
(* key exists!" exactly when the key is not stored, and a call that throws *)
(* leaves size, capacity and buckets as they were; for a stored key        *)
(* bucket_index returns hash(key) & (capacity-1), bucket_size the length   *)
(* of that bucket, and at the value stored.                                *)
(***************************************************************************)
C8_ReadsThrowWhenAbsent ==
    [][(last'.op \in {"at", "operator[] const", "bucket_size", "bucket_index"})
          => /\ KeyNotFound(last') <=> ~Stored(mem, hm, last'.key)
             /\ last'.exc # "none" => KeyNotFound(last')
             /\ mem' = mem /\ hm' = hm /\ alive' = alive
             /\ Stored(mem, hm, last'.key) =>
                  /\ last'.op = "bucket_index" => last'.out = Slot(hm, last'.key)
                  /\ last'.op = "bucket_size" =>
                        last'.out = Len(Array(mem, hm)[Slot(hm, last'.key)])
                  /\ last'.op \in {"at", "operator[] const"} =>
                        ValuesOf(mem, hm, last'.key) = {last'.out}]_vars

\* at has thrown for a key that shares its bucket with a stored pair.
C8_Witness ==
    /\ alive /\ last.op = "at" /\ KeyNotFound(last)
    /\ Len(Array(mem, hm)[Slot(hm, last.key)]) > 0

(***************************************************************************)
(* C9.  HashMap::erase of a key that is not stored returns false, throws   *)
(* nothing and leaves size, capacity and buckets as they were, whatever    *)
(* the load factor; of a stored key it returns true and size drops by one, *)
(* and when the capacity stays, the key's bucket is as before without the  *)
(* pair, the others as before.                                             *)
(***************************************************************************)
C9_BaseErase ==
    [][(last'.op = "erase")
          => /\ last'.exc = "none"
             /\ ~Stored(mem, hm, last'.key)
                  => ~last'.res /\ mem' = mem /\ hm' = hm
             /\ Stored(mem, hm, last'.key)
                  => /\ last'.res
                     /\ hm'.table_size = hm.table_size - 1
                     /\ hm'.table_capacity = hm.table_capacity
                          => \A i \in DOMAIN Array(mem, hm) :
                                Array(mem', hm')[i] =
                                    IF i = Slot(hm, last'.key)
                                    THEN Without(Array(mem, hm)[i], last'.key)
                                    ELSE Array(mem, hm)[i]]_vars

\* An erase without rehash has taken the first pair of a bucket of three.
C9_Witness ==
    /\ alive /\ last.op = "erase" /\ last.res
    /\ last.cap = hm.table_capacity
    /\ Len(Array(mem, hm)[Slot(hm, last.key)]) >= 2
    /\ \A j \in 1..Len(Array(mem, hm)[Slot(hm, last.key)]) :
           Array(mem, hm)[Slot(hm, last.key)][j].first > last.key

(***************************************************************************)
(* C10.  Dictionary::erase throws InvalidKey, "Invalid Key!", exactly when *)
(* the key is not stored, and then size, capacity and buckets are as they  *)
(* were; for a stored key it throws nothing, returns true and leaves the   *)
(* table as HashMap::erase leaves it.                                      *)
(***************************************************************************)
C10_DictionaryErase ==
    [][(last'.op = "Dictionary::erase")
          => /\ ~Stored(mem, hm, last'.key)
                  => /\ last'.exc = "InvalidKey" /\ last'.msg = "Invalid Key!"
                     /\ mem' = mem /\ hm' = hm
             /\ Stored(mem, hm, last'.key)
                  => /\ last'.exc = "none" /\ last'.res
                     /\ ~Stored(mem', hm', last'.key)
                     /\ mem' = erase(mem, hm, last'.key).mem
                     /\ hm' = erase(mem, hm, last'.key).this]_vars

\* Dictionary::erase has thrown on a table that holds other keys.
C10_Witness ==
    /\ alive /\ last.op = "Dictionary::erase" /\ last.exc = "InvalidKey"
    /\ hm.table_size > 0

\* The set of pairs a table holds.
Pairs(m, t) == {PairAt(m, t, p) : p \in Places(m, t)}

(***************************************************************************)
(* C11.  hm == other is true exactly when the two tables hold the same set *)
(* of (key, value) pairs, whatever their capacities, their bucket layouts  *)
(* and the calls that built them; hm == other and other == hm agree, and   *)
(* hm != other is the negation.                                            *)
(***************************************************************************)
C11_EqualsIffSamePairs ==
    (alive /\ other # NoObject)
        => /\ equals(mem, hm, other) <=> (Pairs(mem, hm) = Pairs(mem, other))
           /\ equals(mem, other, hm) <=> equals(mem, hm, other)
           /\ not_equals(mem, hm, other) <=> ~equals(mem, hm, other)
           /\ last.op \in {"operator==", "operator==(reversed)"}
                => (last.res <=> (Pairs(mem, hm) = Pairs(mem, other)))
           /\ last.op = "operator!="
                => (last.res <=> (Pairs(mem, hm) # Pairs(mem, other)))

\* hm == other has returned true for two tables of two pairs each, of
\* different capacities: hm holds the pairs in one bucket, other in two.
C11_Witness ==
    /\ alive /\ other # NoObject
    /\ last.op = "operator==" /\ last.res
    /\ hm.table_size = 2
    /\ hm.table_capacity # other.table_capacity
    /\ \E j \in DOMAIN Array(mem, hm) : Len(Array(mem, hm)[j]) = 2
    /\ \A i \in DOMAIN Array(mem, other) : Len(Array(mem, other)[i]) <= 1

\* The positions of the pairs of a table, by ascending bucket and, in a
\* bucket, in the order the bucket holds them.
RECURSIVE PositionsFrom(_, _, _, _)
PositionsFrom(m, t, i, j) ==
    IF i >= t.table_capacity THEN <<>>
    ELSE IF j >= Len(Array(m, t)[i]) THEN PositionsFrom(m, t, i + 1, 0)
    ELSE <<[_bucket_index |-> i, _pair_index |-> j]>>
             \o PositionsFrom(m, t, i, j + 1)

InOrder(m, t) == PositionsFrom(m, t, 0, 0)

\* The place (bucket, index from 1) of a position.
PlaceOf(c) == <<c._bucket_index, c._pair_index + 1>>

AtEnd == iterator_equals(it, cend(hm))

(***************************************************************************)
(* C12.  A traversal of a table that is not changed meanwhile, from        *)
(* begin() until the iterator equals end(), ends after exactly size()      *)
(* advances and comes to every stored pair once: no pair twice, none left  *)
(* out, empty buckets skipped; a traversal begun again on the same table   *)
(* comes to the same pairs in the same order.                              *)
(***************************************************************************)
C12_IterationComplete ==
    Fresh =>
        /\ \A i \in DOMAIN walk.seen :
              /\ PlaceOf(walk.seen[i]) \in Places(mem, hm)
              /\ dereference(mem, hm, walk.seen[i]) =
                    [exc |-> "none", msg |-> "",
                     pair |-> PairAt(mem, hm, PlaceOf(walk.seen[i]))]
        /\ \A i, j \in DOMAIN walk.seen : walk.seen[i] = walk.seen[j] => i = j
        /\ ~AtEnd => /\ walk.seen # <<>>
                     /\ it = walk.seen[Len(walk.seen)]
                     /\ walk.advances = Len(walk.seen) - 1
                     /\ walk.advances < hm.table_size
        /\ AtEnd => /\ walk.advances = hm.table_size
                    /\ Len(walk.seen) = hm.table_size
                    /\ {PlaceOf(walk.seen[i]) : i \in DOMAIN walk.seen}
                           = Places(mem, hm)
        /\ walk.again =>
              /\ Len(walk.seen) <= Len(walk.before)
              /\ walk.seen = SubSeq(walk.before, 1, Len(walk.seen))
              /\ AtEnd => walk.seen = walk.before

\* A second traversal of the same table has come to the end: the table
\* holds three pairs, two of them in one bucket, and an empty bucket lies
\* before a bucket that holds a pair.
C12_Witness ==
    /\ Fresh /\ AtEnd /\ walk.again
    /\ hm.table_size = 3
    /\ \E i \in DOMAIN Array(mem, hm) : Len(Array(mem, hm)[i]) >= 2
    /\ \E i, j \in DOMAIN Array(mem, hm) :
          i < j /\ Len(Array(mem, hm)[i]) = 0 /\ Len(Array(mem, hm)[j]) > 0

(***************************************************************************)
(* C13.  On a table that is not changed meanwhile: begin() is the first    *)
(* pair in the order of ascending bucket and, in a bucket, of storage, and *)
(* is end() exactly when the table is empty; ++ leads from a pair to the   *)
(* next one in that order, from the last pair to the end position          *)
(* (capacity, 0), and from the end position nowhere; * of the end position *)
(* throws std::out_of_range, and of a pair's position returns the pair.    *)
(***************************************************************************)
C13_CursorProtocol ==
    [][/\ last'.op = "begin" =>
             /\ iterator_equals(it', cend(hm)) <=> hm.table_size = 0
             /\ hm.table_size > 0 => it' = InOrder(mem, hm)[1]
       /\ (last'.op = "operator++" /\ Fresh /\ AtEnd) => it' = it
       /\ (last'.op = "operator++" /\ Fresh /\ ~AtEnd) =>
             \E k \in DOMAIN InOrder(mem, hm) :
                /\ InOrder(mem, hm)[k] = it
                /\ it' = IF k = Len(InOrder(mem, hm))
                         THEN [_bucket_index |-> hm.table_capacity,
                               _pair_index |-> 0]
                         ELSE InOrder(mem, hm)[k + 1]
       /\ (last'.op = "operator*" /\ Fresh /\ AtEnd) =>
             /\ last'.exc = "out_of_range"
             /\ last'.msg = "HashMap iterator: dereference of end()"
       /\ (last'.op = "operator*" /\ Fresh /\ ~AtEnd) =>
             /\ last'.exc = "none"
             /\ MakePair(last'.key, last'.val) = PairAt(mem, hm, PlaceOf(it))
      ]_vars

\* * has thrown at the end position, which ++ reached from the last of the
\* pairs of a table with two pairs in one bucket.
C13_Witness ==
    /\ Fresh /\ AtEnd
    /\ last.op = "operator*" /\ last.exc = "out_of_range"
    /\ walk.advances = hm.table_size
    /\ \E i \in DOMAIN Array(mem, hm) : Len(Array(mem, hm)[i]) >= 2

\* The elements of a sequence, and the index of the last occurrence of x.
Range(seq) == {seq[i] : i \in DOMAIN seq}
LastIndex(seq, x) ==
    CHOOSE i \in DOMAIN seq :
        seq[i] = x /\ \A j \in DOMAIN seq : seq[j] = x => j <= i

\* The keys a table holds.
KeysOf(m, t) == {PairAt(m, t, p).first : p \in Places(m, t)}

(***************************************************************************)
(* C14.  HashMap(keys, values) throws std::runtime_error, "vector sizes    *)
(* don't match!", exactly when the two vectors differ in length, and then  *)
(* nothing is constructed; otherwise the table holds exactly the keys of   *)
(* the input, each once, with the value paired with the key's last         *)
(* occurrence in the input.                                                *)
(***************************************************************************)
C14_BulkConstruct ==
    [][last'.op = "HashMap(keys, values)" =>
       LET keys == last'.args[1]
           values == last'.args[2]
       IN  /\ (last'.exc = "runtime_error"
                /\ last'.msg = "vector sizes don't match!")
                  <=> Len(keys) # Len(values)
           /\ Len(keys) # Len(values) => ~alive' /\ mem' = mem
           /\ Len(keys) = Len(values) =>
                /\ alive' /\ last'.exc = "none"
                /\ KeysOf(mem', hm') = Range(keys)
                /\ hm'.table_size = Cardinality(Range(keys))
                /\ Cardinality(Places(mem', hm')) = Cardinality(Range(keys))
                /\ \A k \in Range(keys) :
                      /\ ValuesOf(mem', hm', k) = {values[LastIndex(keys, k)]}
                      /\ at(mem', hm', k).out = values[LastIndex(keys, k)]
      ]_vars

\* HashMap(keys, values) has returned, given one key twice, with two
\* values: the table holds the second.
C14_Witness ==
    /\ alive /\ last.op = "HashMap(keys, values)" /\ last.exc = "none"
    /\ \E i, j \in DOMAIN last.args[1] :
          /\ i < j
          /\ last.args[1][i] = last.args[1][j]
          /\ last.args[2][i] # last.args[2][j]
          /\ j = LastIndex(last.args[1], last.args[1][j])
          /\ ValuesOf(mem, hm, last.args[1][j]) = {last.args[2][j]}

\* The keys of a sequence of pairs, and the last pair of key k in it.
KeysIn(pairs) == {pairs[i].first : i \in DOMAIN pairs}
LastPair(pairs, k) ==
    pairs[CHOOSE i \in DOMAIN pairs :
             pairs[i].first = k
             /\ \A j \in DOMAIN pairs : pairs[j].first = k => j <= i]

\* operator[](first) = second for each pair of the sequence, from the first on.
RECURSIVE WritesInOrder(_, _, _)
WritesInOrder(m, t, pairs) ==
    IF pairs = <<>> THEN [mem |-> m, this |-> t]
    ELSE Bind(subscript_assign(m, t, Head(pairs).first, Head(pairs).second),
              LAMBDA w : WritesInOrder(w.mem, w.this, Tail(pairs)))

(***************************************************************************)
(* C19.  After Dictionary::update, every key of the pairs given is stored  *)
(* with the value of its last pair, every other key is stored or not as    *)
(* before, with the value it had, and size() is the number of keys stored  *)
(* before or given; the table is the one that operator[](key) = value,     *)
(* done for each pair in order, leads to.                                  *)
(***************************************************************************)
C19_UpdateIsUpsert ==
    [][last'.op = "update" =>
       LET pairs == last'.args
       IN  /\ last'.exc = "none"
           /\ \A k \in KeysIn(pairs) :
                 /\ ValuesOf(mem', hm', k) = {LastPair(pairs, k).second}
                 /\ at(mem', hm', k).out = LastPair(pairs, k).second
           /\ \A k \in BulkKeys \ KeysIn(pairs) :
                 /\ Stored(mem', hm', k) <=> Stored(mem, hm, k)
                 /\ ValuesOf(mem', hm', k) = ValuesOf(mem, hm, k)
           /\ KeysOf(mem', hm') = KeysOf(mem, hm) \cup KeysIn(pairs)
           /\ hm'.table_size = Cardinality(KeysOf(mem, hm) \cup KeysIn(pairs))
           /\ Cardinality(Places(mem', hm')) = hm'.table_size
           /\ mem' = WritesInOrder(mem, hm, pairs).mem
           /\ hm' = WritesInOrder(mem, hm, pairs).this
      ]_vars

\* update has returned, given a key twice with two values, a key the table
\* held with another value: the table holds the key with the second value,
\* and a key that was not given.
C19_Witness ==
    /\ alive /\ last.op = "update"
    /\ \E i, j \in DOMAIN last.args :
          /\ i < j
          /\ last.args[i].first = last.args[j].first
          /\ last.args[i].second # last.args[j].second
          /\ ValuesOf(mem, hm, last.args[j].first) = {last.args[j].second}
    /\ KeysOf(mem, hm) \ KeysIn(last.args) # {}

(***************************************************************************)
(* C15.  From HashMap(): through the inserts of 16 keys the capacity is 16 *)
(* up to the 12th, becomes 32 in the 13th and is 32 after the 16th; then   *)
(* through the erasures of 9 of the 16 keys it is 32 up to the 8th         *)
(* (size 8) and becomes 16 in the 9th (size 7).                            *)
(***************************************************************************)
C15_DemoCapacities ==
    /\ last.op = "HashMap" => hm.table_size = 0 /\ hm.table_capacity = 16
    /\ last.op = "insert" =>
          /\ last.res
          /\ hm.table_size <= 12 => hm.table_capacity = 16
          /\ hm.table_size = 13 => last.cap = 16 /\ hm.table_capacity = 32
          /\ hm.table_size >= 13 => hm.table_capacity = 32
    /\ (last.op = "erase" /\ ~Stored(mem, hm, DemoExtraKey)) =>
          /\ last.res
          /\ hm.table_size = DemoInserts - Cardinality(DemoErased(mem, hm))
          /\ hm.table_size >= 8 => last.cap = 32 /\ hm.table_capacity = 32
          /\ hm.table_size = 7 => last.cap = 32 /\ hm.table_capacity = 16
          /\ hm.table_size >= 7

\* The 9th erasure after the 16 inserts has returned.
C15_Witness ==
    /\ alive /\ last.op = "erase" /\ ~Stored(mem, hm, DemoExtraKey)
    /\ Cardinality(DemoErased(mem, hm)) = 9
    /\ hm.table_size = 7 /\ hm.table_capacity = 16

(***************************************************************************)
(* C20.  The thresholds are strict: an insert that brings size/capacity to *)
(* 0.75 exactly does not grow the table, and an erase that brings it to    *)
(* 0.25 exactly does not shrink it; so the demo's 17 pairs at capacity 32, *)
(* after 9 erasures, are 8 pairs at capacity 32.                           *)
(***************************************************************************)
C20_StrictThresholds ==
    [][/\ (last'.op \in {"insert", "operator[]"}
           /\ hm'.table_size = hm.table_size + 1
           /\ 4 * hm'.table_size = 3 * hm.table_capacity)
             => hm'.table_capacity = hm.table_capacity
       /\ (last'.op = "erase" /\ last'.res
           /\ 4 * hm'.table_size = hm.table_capacity)
             => hm'.table_capacity = hm.table_capacity
       /\ (last'.op = "operator[]" /\ last'.key = DemoExtraKey)
             => hm'.table_size = 17 /\ hm'.table_capacity = 32
       /\ (last'.op = "erase" /\ Stored(mem, hm, DemoExtraKey)
           /\ Cardinality(DemoErased(mem', hm')) = DemoErasures)
             => /\ hm'.table_size = 8
                /\ hm'.table_capacity = 32
                /\ 4 * hm'.table_size = hm'.table_capacity
      ]_vars

\* The 9th erasure after the 16 inserts and the read of hashmap[100] has
\* returned, and has left the load factor at 0.25.
C20_Witness ==
    /\ alive /\ last.op = "erase" /\ last.res
    /\ Stored(mem, hm, DemoExtraKey)
    /\ Cardinality(DemoErased(mem, hm)) = DemoErasures
    /\ last.cap = hm.table_capacity
    /\ 4 * hm.table_size = hm.table_capacity

(***************************************************************************)
(* C16.  The copy constructor and operator= leave the target with the      *)
(* capacity, the size and the buckets, pair by pair, of the source, in an  *)
(* array of its own, and leave the source as it was, so that the two are   *)
(* equal; an insert, erase, operator[] or clear on one of two tables       *)
(* leaves the members and the buckets of the other as they were; hm = hm   *)
(* changes nothing.                                                        *)
(***************************************************************************)
C16_DeepCopy ==
    [][/\ last'.op \in {"other.HashMap(hm)", "other = hm"} =>
             /\ other'.table_capacity = hm.table_capacity
             /\ other'.table_size = hm.table_size
             /\ Array(mem', other') = Array(mem, hm)
             /\ other'.buckets # hm'.buckets
             /\ hm' = hm /\ Array(mem', hm') = Array(mem, hm)
             /\ equals(mem', hm', other') /\ equals(mem', other', hm')
             /\ DOMAIN mem' = {hm'.buckets, other'.buckets}
       /\ last'.op = "hm = other" =>
             /\ hm'.table_capacity = other.table_capacity
             /\ hm'.table_size = other.table_size
             /\ Array(mem', hm') = Array(mem, other)
             /\ hm'.buckets # other'.buckets
             /\ other' = other /\ Array(mem', other') = Array(mem, other)
             /\ equals(mem', hm', other') /\ equals(mem', other', hm')
             /\ DOMAIN mem' = {hm'.buckets, other'.buckets}
       /\ (last'.op \in {"insert", "erase", "operator[]=", "clear"}
           /\ other # NoObject) =>
             /\ other' = other
             /\ Array(mem', other') = Array(mem, other)
       /\ (last'.op \in {"other.insert", "other.erase", "other.operator[]=",
                         "other.clear"}
           /\ alive) =>
             /\ hm' = hm
             /\ Array(mem', hm') = Array(mem, hm)
       /\ last'.op = "operator=(self)" =>
             mem' = mem /\ hm' = hm /\ other' = other
      ]_vars

\* other = hm has returned for a table hm of two pairs whose capacity is
\* not the initial one.
C16_Witness ==
    /\ alive /\ other # NoObject
    /\ last.op = "other = hm"
    /\ hm.table_size = 2 /\ hm.table_capacity # INIT_CAPACITY
    /\ Array(mem, other) = Array(mem, hm)
    /\ other.buckets # hm.buckets

(***************************************************************************)
(* C17.  operator[] on a key that is not stored inserts it with ValueT(),  *)
(* as insert does (size grows by one, the capacity as insert grows it),    *)
(* and the reference is to the new pair; on a stored key size, capacity    *)
(* and the other pairs are as before and the reference is to the key's     *)
(* pair; a value stored through the reference is the value at(key)         *)
(* returns.                                                                *)
(***************************************************************************)
C17_IndexedWrite ==
    [][last'.op \in {"operator[]", "operator[]="} =>
         /\ last'.exc = "none"
         /\ \A k \in Keys \ {last'.key} :
               /\ Stored(mem', hm', k) <=> Stored(mem, hm, k)
               /\ ValuesOf(mem', hm', k) = ValuesOf(mem, hm, k)
         /\ ~Stored(mem, hm, last'.key) =>
               /\ hm'.table_size = hm.table_size + 1
               /\ hm' = insert(mem, hm, last'.key, DefaultValue).this
               /\ last'.op = "operator[]" =>
                     /\ mem' = insert(mem, hm, last'.key, DefaultValue).mem
                     /\ last'.out = DefaultValue
         /\ Stored(mem, hm, last'.key) =>
               /\ hm' = hm
               /\ last'.op = "operator[]" =>
                     /\ mem' = mem
                     /\ ValuesOf(mem, hm, last'.key) = {last'.out}
         /\ Cardinality({p \in Places(mem', hm') :
                            PairAt(mem', hm', p).first = last'.key}) = 1
         /\ last'.op = "operator[]=" =>
               /\ at(mem', hm', last'.key) =
                     [exc |-> "none", msg |-> "", out |-> last'.val]
               /\ ValuesOf(mem', hm', last'.key) = {last'.val}
      ]_vars

\* hm[key] = value has returned for a key that was not stored, with a value
\* that is not ValueT(), having doubled the capacity.
C17_Witness ==
    /\ alive /\ last.op = "operator[]="
    /\ last.val # DefaultValue
    /\ hm.table_capacity = 2 * last.cap
    /\ at(mem, hm, last.key).out = last.val

(***************************************************************************)
(* C18.  clear() leaves a table of size 0 whose buckets are all empty, so  *)
(* that contains_key(k) is false for every key and cbegin() is cend(),     *)
(* and whose capacity and bucket array are the ones it had.                *)
(***************************************************************************)
C18_ClearEmpties ==
    [][last'.op = "clear" =>
         /\ hm'.table_size = 0
         /\ hm'.table_capacity = hm.table_capacity
         /\ hm'.buckets = hm.buckets
         /\ DOMAIN mem' = DOMAIN mem
         /\ \A i \in 0..(hm'.table_capacity - 1) : mem'[hm'.buckets][i] = <<>>
         /\ \A k \in Keys : ~contains_key(mem', hm', k)
         /\ cbegin(mem', hm') = cend(hm')
         /\ Places(mem', hm') = {}
      ]_vars

\* clear() has returned on a table whose capacity is neither the initial
\* one nor the one an emptied table shrinks to, a capacity only insertions
\* reach.
C18_Witness ==
    /\ alive /\ last.op = "clear"
    /\ hm.table_size = 0
    /\ hm.table_capacity \notin {MIN_CAPACITY, INIT_CAPACITY}

(***************************************************************************)
(* C21.  Between calls, after the constructors, insert, erase,             *)
(* operator[], clear, copy construction, assignment and update alike,      *)
(* size/capacity <= 0.75; and an insertion that found capacity 1, which    *)
(* an empty table alone has, has returned with one pair and capacity 2.    *)
(***************************************************************************)
C21_UpperLoadBound ==
    alive =>
        /\ hm.table_size * MAX_LOAD_FACTOR.den
              <= MAX_LOAD_FACTOR.num * hm.table_capacity
        /\ (last.op \in {"insert", "operator[]=", "update"}
            /\ last.cap = MIN_CAPACITY /\ hm.table_size > 0)
              => hm.table_capacity >= 2 * MIN_CAPACITY
        /\ (last.op \in {"insert", "operator[]="} /\ last.cap = MIN_CAPACITY)
              => /\ hm.table_size = 1
                 /\ hm.table_capacity = 2 * MIN_CAPACITY

\* An insert that found capacity 1 has returned true; the capacity is 2.
C21_Witness ==
    /\ alive /\ last.op = "insert" /\ last.res
    /\ last.cap = MIN_CAPACITY
    /\ hm.table_size = 1
    /\ hm.table_capacity = 2 * MIN_CAPACITY

(***************************************************************************)
(* C22.  When erase has returned true, the capacity is 1 or                *)
(* size/capacity >= 0.25, whatever the load factor was before: the         *)
(* capacity is the first of capacity, capacity/2, capacity/4, ... of which *)
(* that is true, however many halvings that takes; so an erase that        *)
(* leaves the table empty leaves capacity 1.                               *)
(***************************************************************************)
C22_EraseLowerBound ==
    [][(last'.op \in {"erase", "Dictionary::erase"} /\ last'.res) =>
         /\ hm'.table_size = hm.table_size - 1
         /\ \/ hm'.table_capacity = MIN_CAPACITY
            \/ hm'.table_size * MIN_LOAD_FACTOR.den
                  >= MIN_LOAD_FACTOR.num * hm'.table_capacity
         /\ hm'.table_capacity <= hm.table_capacity
         /\ \A c \in (hm'.table_capacity + 1)..hm.table_capacity :
               IsPowerOfTwo(c) =>
                  hm'.table_size * MIN_LOAD_FACTOR.den
                     < MIN_LOAD_FACTOR.num * c
         /\ hm'.table_size = 0 => hm'.table_capacity = MIN_CAPACITY
      ]_vars

\* erase has returned true on the one pair of a table of INIT_CAPACITY,
\* whose load factor was below 0.25 before the call, and the capacity is 1.
C22_Witness ==
    /\ alive /\ last.op = "erase" /\ last.res
    /\ last.cap = INIT_CAPACITY
    /\ hm.table_size = 0
    /\ hm.table_capacity = MIN_CAPACITY

(***************************************************************************)
(* C23.  One call of insert or operator[] leaves the capacity as it was    *)
(* or doubles it once, and doubles it only when it has stored a pair that  *)
(* took the load factor above 0.75; one call of erase never raises the     *)
(* capacity; at, contains_key, bucket_size, bucket_index, operator==,      *)
(* operator!=, the iterator's operators and clear leave it as it was.      *)
(***************************************************************************)
C23_CapacitySteps ==
    [][/\ last'.op \in {"insert", "operator[]", "operator[]="} =>
            /\ hm'.table_capacity \in {hm.table_capacity,
                                       2 * hm.table_capacity}
            /\ hm'.table_capacity = 2 * hm.table_capacity =>
                  /\ hm'.table_size = hm.table_size + 1
                  /\ Greater([num |-> hm'.table_size,
                              den |-> hm.table_capacity], MAX_LOAD_FACTOR)
       /\ last'.op \in {"erase", "Dictionary::erase"} =>
            hm'.table_capacity <= hm.table_capacity
       /\ last'.op \in {"at", "operator[] const", "contains_key",
                        "bucket_size", "bucket_index", "clear",
                        "operator==", "operator==(reversed)", "operator!=",
                        "begin", "operator++", "operator*", "it == end()"} =>
            hm'.table_capacity = hm.table_capacity
      ]_vars

\* An insert that found a table of capacity above 1 has doubled the
\* capacity, and the load factor it left is above half of 0.75.
C23_Witness ==
    /\ alive /\ last.op = "insert" /\ last.res
    /\ last.cap > MIN_CAPACITY
    /\ hm.table_capacity = 2 * last.cap
    /\ 2 * hm.table_size * MAX_LOAD_FACTOR.den
          > MAX_LOAD_FACTOR.num * hm.table_capacity

\* The iterator c is at a pair of the table.
Valid(m, t, c) ==
    /\ c._bucket_index < t.table_capacity
    /\ c._pair_index < Len(Array(m, t)[c._bucket_index])

\* The indices in InOrder(m, t) of the positions after c, bucket by bucket
\* and then pair by pair.
After(m, t, c) ==
    {k \in DOMAIN InOrder(m, t) :
        \/ InOrder(m, t)[k]._bucket_index > c._bucket_index
        \/ /\ InOrder(m, t)[k]._bucket_index = c._bucket_index
           /\ InOrder(m, t)[k]._pair_index > c._pair_index}

\* The iterator was made before the table was last changed.
Stale == alive /\ it # NoIterator /\ ~Fresh

(***************************************************************************)
(* C24.  An iterator made before insert, erase or clear calls that changed *)
(* the table, whether or not they replaced the bucket array by a larger or *)
(* a smaller one, stays within the table as it is now.  operator* returns  *)
(* the pair now at the iterator's bucket and index, if there is one, and   *)
(* throws std::out_of_range otherwise; operator++ leaves the iterator      *)
(* alone when its bucket index is not below the capacity, and otherwise    *)
(* moves it to the next pair now after its position, or to end().  Neither *)
(* changes the table.                                                      *)
(***************************************************************************)
C24_StaleCursor ==
    [][(Stale /\ last'.op \in {"operator*", "operator++"}) =>
         /\ mem' = mem /\ hm' = hm
         /\ last'.op = "operator*" =>
               /\ it' = it
               /\ IF Valid(mem, hm, it)
                  THEN /\ last'.exc = "none"
                       /\ PlaceOf(it) \in Places(mem, hm)
                       /\ MakePair(last'.key, last'.val)
                             = PairAt(mem, hm, PlaceOf(it))
                  ELSE /\ last'.exc = "out_of_range"
                       /\ last'.msg =
                             IF it._bucket_index >= hm.table_capacity
                             THEN "HashMap iterator: dereference of end()"
                             ELSE "HashMap iterator: invalid pair index"
         /\ last'.op = "operator++" =>
               /\ Valid(mem, hm, it') \/ it'._bucket_index >= hm.table_capacity
               /\ IF it._bucket_index >= hm.table_capacity THEN it' = it
                  ELSE IF After(mem, hm, it) = {} THEN it' = cend(hm)
                  ELSE \E k \in After(mem, hm, it) :
                          /\ \A j \in After(mem, hm, it) : k <= j
                          /\ it' = InOrder(mem, hm)[k]
      ]_vars

\* operator* has thrown for an iterator whose bucket is within the array
\* and whose pair index is not within the bucket: the table was changed
\* after the iterator was made.
C24_Witness ==
    /\ Stale
    /\ last.op = "operator*" /\ last.exc = "out_of_range"
    /\ last.msg = "HashMap iterator: invalid pair index"
    /\ it._bucket_index < hm.table_capacity
    /\ it._pair_index >= Len(Array(mem, hm)[it._bucket_index])

====
